---- MODULE Spec2Model ----
(***************************************************************************)
(* FinSign-BI ingestion pipeline: the Ozon loader (etl/ozon_loader.py),    *)
(* the WB loader (etl/wb_loader.py) and the dashboard's rebuild of the     *)
(* fact table (app/app.py).                                                *)
(*                                                                         *)
(* Python values are encoded as follows.  JSON scalars are strings, the    *)
(* Python None is the string None below, a parsed calendar date is an      *)
(* integer yyyymmdd and pandas' NaT / SQL NULL in a date column is NaT.    *)
(* A JSON value is a record [kind, list, dict]; a dict is a function over  *)
(* JKeys whose absent keys map to an "absent" value.                       *)
(***************************************************************************)
EXTENDS Integers, Sequences, FiniteSets, TLC

VARIABLES
    prog,        \* which entry point this behaviour exercises
    pc,          \* position inside that entry point
    fn_in,       \* argument of the function under test (function specs)
    fn_out,      \* its result
    upstream,    \* pages the remote API serves on successive HTTP 200 replies
    served,      \* number of pages served so far
    requests,    \* offsets / cursors sent so far, in order
    batches,     \* the batch obtained for each request answered normally
    last_call,   \* summary of the most recent post_with_retries / fetch_report_batch call
    offset,      \* fetch_all_ozon_stock: offset
    all_items,   \* fetch_all_ozon_stock: all_items
    rrdid,       \* fetch_report_all: rrdid
    results,     \* fetch_report_all: results
    dry_run,     \* run: args.dry_run
    log_id,      \* run: log_id
    items,       \* run: items
    df_norm,     \* run: df_norm
    rows_raw,    \* run: rows_raw
    rows_norm,   \* run: rows_norm
    error,       \* the exception that left the entry point ("" when none)
    etl_log,     \* raw.etl_log
    ozon_stock_raw, \* raw.ozon_stock_raw (payload column)
    ozon_stock,  \* raw.ozon_stock
    fact_sales,  \* mart.fact_sales
    wb_sales     \* raw.wb_sales

vars == <<prog, pc, fn_in, fn_out, upstream, served, requests, batches,
          last_call, offset, all_items, rrdid, results, dry_run, log_id,
          items, df_norm, rows_raw, rows_norm, error, etl_log,
          ozon_stock_raw, ozon_stock, fact_sales, wb_sales>>

\* ---------------------------------------------------------------- bounds
PageLimit == 3      \* page_limit handed to fetch_all_ozon_stock
MaxPages == 2       \* pages the upstream holds before it answers with empty pages
WBMaxLen == 2       \* records in one WB page
MaxBatch == 2       \* records in a batch handed to normalize_stock

\* ------------------------------------------------------- generic helpers
Min(a, b) == IF a < b THEN a ELSE b

RECURSIVE Pow2(_)
Pow2(n) == IF n = 0 THEN 1 ELSE 2 * Pow2(n - 1)

RECURSIVE SumSeq(_)
SumSeq(s) == IF s = <<>> THEN 0 ELSE Head(s) + SumSeq(Tail(s))

RECURSIVE Concat(_)
Concat(ss) == IF ss = <<>> THEN <<>> ELSE Head(ss) \o Concat(Tail(ss))

SeqsUpTo(S, n) == UNION {[1..k -> S] : k \in 0..n}

None == "None"

\* ------------------------------------------------------------ JSON values
\* Three nesting levels are enough for every response shape the extractor
\* distinguishes: the response, the value under one of its keys, and the
\* value under a key of that.
JKeys == {"result", "items", "stocks", "data", "rows"}

Absent0 == [kind |-> "absent", list |-> <<>>]
NoDict0 == [k \in JKeys |-> Absent0]
Value0(kind, l) == [kind |-> kind, list |-> l]

Absent1 == [kind |-> "absent", list |-> <<>>, dict |-> NoDict0]
NoDict1 == [k \in JKeys |-> Absent1]
Value1(kind, l) == [kind |-> kind, list |-> l, dict |-> NoDict0]
Dict1(d) == [kind |-> "dict", list |-> <<>>, dict |-> d]

Value2(kind, l) == [kind |-> kind, list |-> l, dict |-> NoDict1]
Dict2(d) == [kind |-> "dict", list |-> <<>>, dict |-> d]

JNull == Value2("null", <<>>)
EmptyDict == Dict2(NoDict1)

IsList(v) == v.kind = "list"
IsDict(v) == v.kind = "dict"
HasKey(d, key) == d.dict[key].kind # "absent"

\* ------------------------------------------------- Retry/backoff controller
max_retries == 5

Exc == [exc |-> TRUE, status |-> 0, body |-> JNull]
Http(s, b) == [exc |-> FALSE, status |-> s, body |-> b]

backoff_linear(retry) == Min(2 * retry, 30)

backoff(retry) == Min(Pow2(retry), 30)

Retryable4xx5xx(status) == 400 <= status /\ status < 600

Retryable5xx(status) == 500 <= status /\ status < 600

\* The for-loop of post_with_retries over the outcomes of successive
\* requests.post calls; slept accumulates the time.sleep delays.
RECURSIVE PwrLoop(_, _, _)
PwrLoop(outs, attempt, slept) ==
    IF attempt >= max_retries
    THEN [result |-> "returned", value |-> EmptyDict, error |-> "",
          attempts |-> attempt, slept |-> slept]
    ELSE LET resp == outs[attempt + 1] IN
         IF resp.exc
         THEN IF attempt = max_retries - 1
              THEN [result |-> "raised", value |-> JNull,
                    error |-> "RequestException",
                    attempts |-> attempt + 1, slept |-> slept]
              ELSE PwrLoop(outs, attempt + 1, slept + backoff(attempt))
         ELSE IF resp.status = 200
              THEN [result |-> "returned", value |-> resp.body, error |-> "",
                    attempts |-> attempt + 1, slept |-> slept]
              ELSE IF Retryable5xx(resp.status)
                   THEN PwrLoop(outs, attempt + 1, slept + backoff(attempt))
                   ELSE [result |-> "raised", value |-> JNull,
                         error |-> "Ozon API HTTP " \o ToString(resp.status),
                         attempts |-> attempt + 1, slept |-> slept]

post_with_retries(outs) == PwrLoop(outs, 0, 0)

NoResult == [result |-> "pending", value |-> JNull, error |-> "",
             attempts |-> 0, slept |-> 0]

\* --------------------------------------------------------- Response extractor
ProbeKeysSwapped == <<"stocks", "items", "data", "rows">>

ProbeKeys == <<"items", "stocks", "data", "rows">>

\* for key in (...): if isinstance(res.get(key), list): return res[key]
RECURSIVE Probe(_, _)
Probe(res, i) ==
    IF i > Len(ProbeKeys) THEN <<>>
    ELSE IF HasKey(res, ProbeKeys[i]) /\ IsList(res.dict[ProbeKeys[i]])
         THEN res.dict[ProbeKeys[i]].list
         ELSE Probe(res, i + 1)

extract_items(data) ==
    IF ~IsDict(data) THEN <<>>
    ELSE IF HasKey(data, "result")
         THEN LET res == data.dict["result"] IN       \* data.get("result", data)
              IF IsList(res) THEN res.list
              ELSE IF IsDict(res) THEN Probe(res, 1)
              ELSE <<>>
         ELSE Probe(data, 1)                         \* res is data itself

\* ------------------------------------------------------------- Normalizer
NaT == 0            \* pandas NaT, and NULL in a SQL date column
Today == 20261102   \* date.today() / CURRENT_DATE

\* pd.to_datetime(value, errors="coerce").dt.date
to_date(v) ==
    CASE v = "2024-01-01" -> 20240101
      [] v = "2024-01-02" -> 20240102
      [] v = "2024-01-03T10:00:00" -> 20240103
      [] OTHER -> NaT

\* pd.to_numeric(value, errors="coerce"): NaN for what does not parse
to_numeric(v) ==
    CASE v = "0" -> [nan |-> FALSE, v |-> 0]
      [] v = "2" -> [nan |-> FALSE, v |-> 2]
      [] v = "5" -> [nan |-> FALSE, v |-> 5]
      [] v = "7" -> [nan |-> FALSE, v |-> 7]
      [] v = "10" -> [nan |-> FALSE, v |-> 10]
      [] OTHER -> [nan |-> TRUE, v |-> 0]

fillna(x, d) == IF x.nan THEN d ELSE x.v

AllNa(col) == \A i \in DOMAIN col : col[i] = NaT

normalize_stock(its) ==
    IF its = <<>> THEN <<>>
    ELSE LET d1 == [i \in DOMAIN its |-> to_date(its[i].date)]
             d2 == IF AllNa(d1)
                   THEN [i \in DOMAIN its |-> to_date(its[i].updated_at)]
                   ELSE d1
             d3 == IF AllNa(d2) THEN [i \in DOMAIN its |-> Today] ELSE d2
         IN [i \in DOMAIN its |->
               [date |-> d3[i],
                warehouse_name |-> its[i].warehouse_name,
                region |-> its[i].region,
                product_id |-> its[i].product_id,
                sku |-> its[i].sku,
                item_name |-> its[i].item_name,
                quantity |-> fillna(to_numeric(its[i].quantity), 0),
                reserved |-> fillna(to_numeric(its[i].reserved), 0),
                price |-> fillna(to_numeric(its[i].price), 0)]]

\* ------------------------------------------------------------- Persistence
LogEntry(id, source, endpoint) ==
    [id |-> id, source |-> source, endpoint |-> endpoint, status |-> "running",
     rows_loaded |-> 0, message |-> None, finished |-> FALSE]

finish_log_any(log, id, status, rows, message) ==
    [i \in DOMAIN log |->
        [log[i] EXCEPT !.status = status, !.rows_loaded = rows,
                       !.message = message, !.finished = TRUE]]

\* UPDATE raw.etl_log SET ... WHERE id = :id
finish_log(log, id, status, rows, message) ==
    [i \in DOMAIN log |->
        IF log[i].id = id
        THEN [log[i] EXCEPT !.status = status, !.rows_loaded = rows,
                            !.message = message, !.finished = TRUE]
        ELSE log[i]]

\* The SELECT of rebuild_mart_from_raw: one fact row per raw row.
FactRow(r) ==
    [date |-> IF r.date = NaT THEN Today ELSE r.date,
     marketplace |-> "ozon",
     sku |-> IF r.sku = None THEN "UNKNOWN" ELSE r.sku,
     region |-> IF r.region = None \/ r.region = "" THEN "" ELSE r.region,
     revenue |-> r.quantity * r.price,
     cost |-> 0,
     profit |-> r.quantity * r.price - 0]

FactKey(f) == <<f.date, f.marketplace, f.sku, f.region>>

\* PRIMARY KEY (date, marketplace, sku, region) holds for the selected rows.
PrimaryKeyOk(raw) ==
    \A i, j \in DOMAIN raw :
        i # j => FactKey(FactRow(raw[i])) # FactKey(FactRow(raw[j]))

\* TRUNCATE + INSERT ... SELECT: the table when the statement succeeds.
rebuild_mart_from_raw(raw) == {FactRow(raw[i]) : i \in DOMAIN raw}

RolledBackEmpty(prior) == {}

\* engine.begin() rolls the transaction back when the block raises: the
\* TRUNCATE is undone with it.
RolledBack(prior) == prior

\* A fact row of the same key takes the prior revenue on top of its own.
RebuiltAccumulating(raw, prior, db_ok) ==
    IF db_ok /\ PrimaryKeyOk(raw)
    THEN {IF \E g \in prior : FactKey(g) = FactKey(f)
          THEN LET g == CHOOSE h \in prior : FactKey(h) = FactKey(f)
               IN [f EXCEPT !.revenue = f.revenue + g.revenue,
                            !.profit = f.profit + g.profit]
          ELSE f : f \in rebuild_mart_from_raw(raw)}
    ELSE prior

\* with engine.begin() as conn: conn.execute(text(sql)) -- the table after
\* the block: committed, or rolled back to the prior contents when the
\* INSERT violates the primary key or the connection is lost.
Rebuilt(raw, prior, db_ok) ==
    IF db_ok /\ PrimaryKeyOk(raw) THEN rebuild_mart_from_raw(raw)
    ELSE RolledBack(prior)

\* ------------------------------------------------------- function specs
Idle ==
    /\ upstream = <<>> /\ served = 0 /\ requests = <<>> /\ batches = <<>>
    /\ last_call = [attempts |-> 0, got200 |-> FALSE, raised |-> FALSE]
    /\ offset = 0 /\ all_items = <<>> /\ rrdid = 0 /\ results = <<>>
    /\ dry_run = FALSE /\ log_id = 0 /\ items = <<>> /\ df_norm = <<>>
    /\ rows_raw = 0 /\ rows_norm = 0 /\ error = ""
    /\ etl_log = <<>> /\ ozon_stock_raw = <<>> /\ ozon_stock = <<>>
    /\ fact_sales = {} /\ wb_sales = <<>>

\* Outcomes of one requests.post call offered to post_with_retries.
Body1 == Dict2([NoDict1 EXCEPT !["result"] = Value1("list", <<1>>)])
Body2 == Dict2([NoDict1 EXCEPT !["result"] = Value1("list", <<>>)])
RetryOutcomes ==
    {Exc} \cup {Http(s, JNull) : s \in {204, 404, 500, 503}}
          \cup {Http(200, b) : b \in {Body1, Body2}}

InitRetry ==
    /\ prog = "post_with_retries" /\ pc = "call"
    /\ fn_in \in [1..max_retries -> RetryOutcomes]
    /\ fn_out = NoResult
    /\ Idle

CallPostWithRetries ==
    /\ prog = "post_with_retries" /\ pc = "call"
    /\ fn_out' = post_with_retries(fn_in)
    /\ pc' = "done"
    /\ UNCHANGED <<wb_sales, prog, fn_in, upstream, served, requests, batches,
                   last_call, offset, all_items, rrdid, results, dry_run,
                   log_id, items, df_norm, rows_raw, rows_norm, error,
                   etl_log, ozon_stock_raw, ozon_stock, fact_sales>>

SpecRetry == InitRetry /\ [][CallPostWithRetries]_vars

\* Is the outcome of one attempt a retryable failure / a client error?
IsRetryableFailure(o) == o.exc \/ (500 <= o.status /\ o.status <= 599)
Is4xx(o) == ~o.exc /\ 400 <= o.status /\ o.status <= 499
Is200(o) == ~o.exc /\ o.status = 200

\* Sum over i < k of min(2^i, 30).
ExpectedDelay(k) == SumSeq([i \in 1..k |-> Min(Pow2(i - 1), 30)])

\* C1: a post_with_retries call whose 5 attempts all end in a retryable
\* failure (5xx and/or transport exception) raises; a call returns normally
\* only when one of the attempts it made received HTTP 200.
C1_ExhaustedRetriesRaise ==
    (prog = "post_with_retries" /\ pc = "done") =>
        /\ (\A i \in 1..max_retries : IsRetryableFailure(fn_in[i]))
              => fn_out.result = "raised"
        /\ fn_out.result = "returned"
              => \E i \in 1..fn_out.attempts : Is200(fn_in[i])

\* C3: an HTTP 4xx response on any attempt makes post_with_retries raise at
\* once: that attempt is the last one and adds no backoff delay, so a first
\* response 404 fails after exactly 1 attempt and 0 time units of delay.
C3_ClientErrorFatal ==
    (prog = "post_with_retries" /\ pc = "done") =>
        \A i \in 1..max_retries :
            ((\A j \in 1..(i - 1) : IsRetryableFailure(fn_in[j])) /\ Is4xx(fn_in[i]))
               => /\ fn_out.result = "raised"
                  /\ fn_out.attempts = i
                  /\ fn_out.slept = ExpectedDelay(i - 1)

C3_Witness ==
    /\ prog = "post_with_retries" /\ pc = "done"
    /\ fn_in[1] = Http(404, JNull)
    /\ fn_out.result = "raised" /\ fn_out.attempts = 1 /\ fn_out.slept = 0

\* C4: when the first k attempts (k in 0..4) are retryable failures and
\* attempt k+1 answers HTTP 200, post_with_retries returns that body after
\* exactly k+1 attempts and a total delay of the sum over i<k of
\* min(2^i, 30); no call makes more than 5 attempts.
C4_RetrySchedule ==
    (prog = "post_with_retries" /\ pc = "done") =>
        /\ fn_out.attempts <= 5
        /\ \A k \in 0..4 :
              ((\A j \in 1..k : IsRetryableFailure(fn_in[j])) /\ Is200(fn_in[k + 1]))
                 => /\ fn_out.result = "returned"
                    /\ fn_out.value = fn_in[k + 1].body
                    /\ fn_out.attempts = k + 1
                    /\ fn_out.slept = ExpectedDelay(k)

C4_Witness ==
    /\ prog = "post_with_retries" /\ pc = "done"
    /\ \A j \in 1..3 : fn_in[j] = Http(503, JNull)
    /\ fn_in[4] = Http(200, Body1)
    /\ fn_out.result = "returned" /\ fn_out.value = Body1
    /\ fn_out.attempts = 4 /\ fn_out.slept = 7

\* ---------------------------------------------------- extract_items inputs
PKeys == {"items", "stocks", "data", "rows"}
KeyNo(k) == CASE k = "items" -> 1 [] k = "stocks" -> 2 [] k = "data" -> 3
              [] k = "rows" -> 4 [] OTHER -> 0

\* Objects nested under "result": every probed key is absent, a scalar or a
\* list that is different for every key.
InnerDicts ==
    {d \in [JKeys -> {Absent0, Value0("scalar", <<>>)}
                        \cup {Value0("list", <<10 + i>>) : i \in 1..4}] :
        /\ d["result"] = Absent0
        /\ \A k \in PKeys : IsList(d[k]) => d[k].list = <<10 + KeyNo(k)>>}

ResultVals ==
    {Absent1, Value1("null", <<>>), Value1("scalar", <<>>),
     Value1("list", <<1, 2>>), Value1("list", <<>>)}
        \cup {Dict1(d) : d \in InnerDicts}

TopProbes ==
    {t \in [PKeys -> {Absent1, Value1("scalar", <<>>)}
                        \cup {Value1("list", <<20 + i>>) : i \in 1..4}] :
        \A k \in PKeys : IsList(t[k]) => t[k].list = <<20 + KeyNo(k)>>}

ExtractInputs ==
    {JNull, Value2("scalar", <<>>), Value2("list", <<1, 2>>)}
        \cup {Dict2([k \in JKeys |-> IF k = "result" THEN r ELSE t[k]]) :
                 r \in ResultVals, t \in TopProbes}

InitExtract ==
    /\ prog = "extract_items" /\ pc = "call"
    /\ fn_in \in ExtractInputs
    /\ fn_out = <<>>
    /\ Idle

CallExtractItems ==
    /\ prog = "extract_items" /\ pc = "call"
    /\ fn_out' = extract_items(fn_in)
    /\ pc' = "done"
    /\ UNCHANGED <<wb_sales, prog, fn_in, upstream, served, requests, batches,
                   last_call, offset, all_items, rrdid, results, dry_run,
                   log_id, items, df_norm, rows_raw, rows_norm, error,
                   etl_log, ozon_stock_raw, ozon_stock, fact_sales>>

SpecExtract == InitExtract /\ [][CallExtractItems]_vars

\* The list under the first key, in the priority items, stocks, data, rows,
\* that holds a list; the empty list when none does.
Priority == <<"items", "stocks", "data", "rows">>
HoldsList(obj, k) == obj.dict[k].kind = "list"
ListUnder(obj) ==
    IF \E i \in 1..4 : HoldsList(obj, Priority[i])
    THEN LET i == CHOOSE n \in 1..4 :
                     /\ HoldsList(obj, Priority[n])
                     /\ \A m \in 1..(n - 1) : ~HoldsList(obj, Priority[m])
         IN obj.dict[Priority[i]].list
    ELSE <<>>

\* C9 as stated: extract_items returns (1) the "result" list, (2) for a
\* "result" object the list under the first of items, stocks, data, rows
\* that holds one, (3) the empty list in every other case, a response
\* without "result" key included.
C9_ThreeStepRule ==
    (prog = "extract_items" /\ pc = "done") =>
        fn_out = IF IsDict(fn_in) /\ fn_in.dict["result"].kind = "list"
                 THEN fn_in.dict["result"].list
                 ELSE IF IsDict(fn_in) /\ fn_in.dict["result"].kind = "dict"
                      THEN ListUnder(fn_in.dict["result"])
                      ELSE <<>>

\* C9 amended: as stated, except that a response object without "result"
\* key is itself probed for items, stocks, data, rows in that priority.
C9_ThreeStepRuleTopLevel ==
    (prog = "extract_items" /\ pc = "done") =>
        fn_out = IF IsDict(fn_in) /\ fn_in.dict["result"].kind = "list"
                 THEN fn_in.dict["result"].list
                 ELSE IF IsDict(fn_in) /\ fn_in.dict["result"].kind = "dict"
                      THEN ListUnder(fn_in.dict["result"])
                      ELSE IF IsDict(fn_in) /\ fn_in.dict["result"].kind = "absent"
                           THEN ListUnder(fn_in)
                           ELSE <<>>

C9_Witness ==
    /\ prog = "extract_items" /\ pc = "done"
    /\ IsDict(fn_in) /\ fn_in.dict["result"].kind = "absent"
    /\ fn_in.dict["items"].kind = "scalar"
    /\ fn_in.dict["stocks"].kind = "list" /\ fn_in.dict["data"].kind = "list"
    /\ fn_out = <<22>>

\* -------------------------------------------------- normalize_stock inputs
StockItem(d, u, q) ==
    [date |-> d, updated_at |-> u, warehouse_name |-> "WH-A",
     region |-> "Moscow", product_id |-> "1001", sku |-> "A1",
     item_name |-> "Item", quantity |-> q, reserved |-> None, price |-> "10"]

StockItems ==
    {StockItem(d, u, q) :
        d \in {None, "not-a-date", "2024-01-01", "2024-01-02"},
        u \in {None, "garbage", "2024-01-03T10:00:00"},
        q \in {None, "abc", "5"}}

InitNormalize ==
    /\ prog = "normalize_stock" /\ pc = "call"
    /\ fn_in \in SeqsUpTo(StockItems, MaxBatch)
    /\ fn_out = <<>>
    /\ Idle

CallNormalizeStock ==
    /\ prog = "normalize_stock" /\ pc = "call"
    /\ fn_out' = normalize_stock(fn_in)
    /\ pc' = "done"
    /\ UNCHANGED <<wb_sales, prog, fn_in, upstream, served, requests, batches,
                   last_call, offset, all_items, rrdid, results, dry_run,
                   log_id, items, df_norm, rows_raw, rows_norm, error,
                   etl_log, ozon_stock_raw, ozon_stock, fact_sales>>

SpecNormalize == InitNormalize /\ [][CallNormalizeStock]_vars

\* C10: every row output by normalize_stock for a non-empty batch has a
\* non-null date: the record's own date when it parses, otherwise its
\* updated_at, otherwise the current date -- row by row.
C10_DateNeverNull ==
    (prog = "normalize_stock" /\ pc = "done" /\ fn_in # <<>>) =>
        /\ Len(fn_out) = Len(fn_in)
        /\ \A i \in 1..Len(fn_in) :
              /\ fn_out[i].date # NaT
              /\ fn_out[i].date =
                    IF to_date(fn_in[i].date) # NaT THEN to_date(fn_in[i].date)
                    ELSE IF to_date(fn_in[i].updated_at) # NaT
                         THEN to_date(fn_in[i].updated_at)
                         ELSE Today

\* ------------------------------------------------------------ the upstream
\* Ozon: the k-th record of page p.  Records differ in product_id; the other
\* fields cycle through three shapes (own date / only updated_at / same sku
\* in another warehouse).
OzonItem(p, k) ==
    LET t == (p + k) % 3
        base == [date |-> "2024-01-01", updated_at |-> None,
                 warehouse_name |-> "WH-A", region |-> "Moscow",
                 product_id |-> ToString(10 * p + k), sku |-> "A1",
                 item_name |-> "Item", quantity |-> "5", reserved |-> "0",
                 price |-> "10"]
    IN CASE t = 0 -> base
         [] t = 1 -> [base EXCEPT !.date = None,
                                  !.updated_at = "2024-01-03T10:00:00",
                                  !.region = "", !.quantity = "abc",
                                  !.price = "7"]
         [] OTHER -> [base EXCEPT !.warehouse_name = "WH-B", !.quantity = "2"]

OzonPage(p, n) == [k \in 1..n |-> OzonItem(p, k)]

OzonScripts ==
    UNION {{[p \in 1..n |-> OzonPage(p, sz[p])] : sz \in [1..n -> 0..(PageLimit + 1)]} :
              n \in 1..MaxPages}

\* The page served on the i-th HTTP 200 reply; the upstream is exhausted
\* after its last page and answers with empty pages from then on.
PageAt(script, i) == IF i <= Len(script) THEN script[i] ELSE <<>>

BodyShapes == {"result_list", "result_items", "malformed"}

WrapBody(shape, page) ==
    CASE shape = "result_list" ->
            Dict2([NoDict1 EXCEPT !["result"] = Value1("list", page)])
      [] shape = "result_items" ->
            Dict2([NoDict1 EXCEPT !["result"] =
                      Dict1([NoDict0 EXCEPT !["items"] = Value0("list", page)])])
      [] OTHER ->
            Dict2([NoDict1 EXCEPT !["result"] = Value1("scalar", <<>>)])

\* What the upstream can do to one post_with_retries call: fail some
\* attempts in a retryable way, then answer 200 with the next page or 404.
FaultSeqs == SeqsUpTo({Exc, Http(503, JNull)}, max_retries)
FinalOutcomes(page) ==
    {Http(404, JNull)} \cup {Http(200, WrapBody(sh, page)) : sh \in BodyShapes}

\* ------------------------------------------------ wb_loader.normalize_to_df
\* coalesce(*vals, default): the first value not in (None, "", "null")
RECURSIVE coalesce(_, _)
coalesce(vals, default) ==
    IF vals = <<>> THEN default
    ELSE IF Head(vals) \notin {None, "", "null"} THEN Head(vals)
    ELSE coalesce(Tail(vals), default)

\* s.replace("T", " ")
ReplaceT(s) ==
    CASE s = "2025-10-29T11:22:33" -> "2025-10-29 11:22:33"
      [] OTHER -> s

\* datetime.fromisoformat(s).date(); NaT stands for the raised ValueError
fromisoformat(s) ==
    CASE s = "2025-10-29" -> 20251029
      [] s = "2025-10-29 11:22:33" -> 20251029
      [] s = "2025-10-30" -> 20251030
      [] OTHER -> NaT

\* datetime.strptime(s, "%Y-%m-%d %H:%M:%S").date()
strptime(s) ==
    CASE s = "2025-10-29 11:22:33" -> 20251029
      [] s = "2025-10-31 7:05:09" -> 20251031
      [] OTHER -> NaT

\* parse_date(s); the returned None is NaT
parse_date(s) ==
    IF s = None \/ s = "" THEN NaT
    ELSE LET t == ReplaceT(s) IN
         IF fromisoformat(t) # NaT THEN fromisoformat(t) ELSE strptime(t)

\* float(v): the number, or ValueError
float(v) ==
    CASE v = "0" -> [err |-> FALSE, v |-> 0]
      [] v = "2" -> [err |-> FALSE, v |-> 2]
      [] v = "5" -> [err |-> FALSE, v |-> 5]
      [] v = "7" -> [err |-> FALSE, v |-> 7]
      [] v = "10" -> [err |-> FALSE, v |-> 10]
      [] OTHER -> [err |-> TRUE, v |-> 0]

\* x or 0 (the number 0 is written "0")
Or0(x) == IF x \in {None, ""} THEN "0" ELSE x

\* The dict appended to rows for one record, before float() is applied.
WBRow(it) ==
    [date |-> parse_date(coalesce(<<it.sale_dt, it.saleDt, it.date>>, None)),
     sku |-> coalesce(<<it.supplierArticle, it.sa_article, it.sa_name,
                        it.nm_id, it.barcode>>, "UNKNOWN"),
     region |-> coalesce(<<it.regionName, it.region_name>>, None),
     quantity |-> float(Or0(coalesce(<<it.quantity, it.sale_qty, "0">>, None))),
     price |-> float(Or0(coalesce(<<it.retail_price, it.price, "0">>, None))),
     payload |-> it]

KeepAllRows(rows) == rows

\* df = df[df["date"].notna()]
NotNaDate(r) == r.date # NaT
DropNaDates(rows) == SelectSeq(rows, NotNaDate)

\* normalize_to_df(items): raises when float() fails for some record
normalize_to_df(its) ==
    LET rs == [i \in DOMAIN its |-> WBRow(its[i])] IN
    IF \E i \in DOMAIN rs : rs[i].quantity.err \/ rs[i].price.err
    THEN [raised |-> TRUE, rows |-> <<>>]
    ELSE [raised |-> FALSE,
          rows |-> DropNaDates([i \in DOMAIN rs |->
                      [rs[i] EXCEPT !.quantity = rs[i].quantity.v,
                                    !.price = rs[i].price.v]])]

MissingId == -1     \* the key is absent from the record (or null)

\* One report record as the API returns it.
WBBase ==
    [sale_dt |-> "2025-10-29T11:22:33", saleDt |-> None, date |-> None,
     supplierArticle |-> "ART", sa_article |-> None, sa_name |-> None,
     nm_id |-> None, barcode |-> None,
     regionName |-> "Moscow", region_name |-> None,
     quantity |-> "5", sale_qty |-> None, retail_price |-> "10", price |-> None,
     rrd_id |-> 1, rrdid |-> MissingId]

\* ------------------------------------------------------------ initial state
RowA == normalize_stock(<<OzonItem(1, 2)>>)[1]
RowB == normalize_stock(<<OzonItem(1, 1)>>)[1]

\* A row of raw.wb_sales written by an earlier run for the given sale date.
WBStored(d) ==
    normalize_to_df(<<[WBBase EXCEPT !.sale_dt = d,
                                     !.supplierArticle = "OLD"]>>).rows[1]

\* The run log after one successful earlier run, and after a failed one more.
LogOfOne ==
    finish_log(<<LogEntry(1, "ozon", "/v2/analytics/stock_on_warehouses")>>,
               1, "ok", 1, "raw=1, norm=1")
LogOfTwo ==
    finish_log(Append(LogOfOne,
                      LogEntry(2, "ozon", "/v2/analytics/stock_on_warehouses")),
               2, "error", 0, "OperationalError")

\* Contents of the store left by earlier runs: nothing; one raw row and the
\* fact table rebuilt from it; two raw rows with the same (date, sku, region)
\* appended after the last successful rebuild.
InitStores ==
    {[raw |-> <<>>, mart |-> {}, wb |-> <<>>, log |-> <<>>],
     [raw |-> <<RowA>>, mart |-> rebuild_mart_from_raw(<<RowA>>),
      wb |-> <<WBStored("2025-10-29")>>, log |-> LogOfOne],
     [raw |-> <<RowA, RowB>>, mart |-> rebuild_mart_from_raw(<<RowA>>),
      wb |-> <<WBStored("2025-10-30"), WBStored("2025-10-31 7:05:09")>>,
      log |-> LogOfTwo]}

NoCall == [attempts |-> 0, got200 |-> FALSE, raised |-> FALSE]

Init ==
    /\ prog = "none" /\ pc = "idle"
    /\ fn_in = <<>> /\ fn_out = <<>>
    /\ upstream = <<>> /\ served = 0 /\ requests = <<>> /\ batches = <<>>
    /\ last_call = NoCall
    /\ offset = 0 /\ all_items = <<>> /\ rrdid = 0 /\ results = <<>>
    /\ dry_run = FALSE /\ log_id = 0 /\ items = <<>> /\ df_norm = <<>>
    /\ rows_raw = 0 /\ rows_norm = 0 /\ error = ""
    /\ ozon_stock_raw = <<>>
    /\ \E st \in InitStores :
         /\ ozon_stock = st.raw /\ fact_sales = st.mart
         /\ wb_sales = st.wb /\ etl_log = st.log

\* ------------------------------------------------------ ozon_loader.run()
\* argparse, load_config, make_engine, bootstrap_raw, bootstrap_mart: the
\* tables exist afterwards and no row changes.
OzonRunStart ==
    /\ prog = "none"
    /\ prog' = "ozon_run" /\ pc' = "start_log"
    /\ dry_run' \in BOOLEAN
    /\ upstream' \in OzonScripts
    /\ UNCHANGED <<wb_sales, fn_in, fn_out, served, requests, batches, last_call,
                   offset, all_items, rrdid, results, log_id, items, df_norm,
                   rows_raw, rows_norm, error, etl_log, ozon_stock_raw,
                   ozon_stock, fact_sales>>

StartLog ==
    /\ prog = "ozon_run" /\ pc = "start_log"
    /\ LET id == Len(etl_log) + 1 IN
         /\ etl_log' = Append(etl_log,
                LogEntry(id, "ozon", "/v2/analytics/stock_on_warehouses"))
         /\ log_id' = id
    /\ pc' = "fetch"
    /\ offset' = 0 /\ all_items' = <<>>
    /\ UNCHANGED <<wb_sales, prog, fn_in, fn_out, upstream, served, requests, batches,
                   last_call, rrdid, results, dry_run, items, df_norm,
                   rows_raw, rows_norm, error, ozon_stock_raw, ozon_stock,
                   fact_sales>>

\* if batch_count == 0: break ... if batch_count < page_limit: break
LastPageOnlyWhenEmpty(batch_count, page_limit) == batch_count = 0

LastPage(batch_count, page_limit) ==
    batch_count = 0 \/ batch_count < page_limit

\* One iteration of the while-loop of fetch_all_ozon_stock: the whole
\* post_with_retries call for the current offset, extract_items, and the
\* loop's decision.  When the loop ends, run() goes on to normalize_stock.
OzonFetchPage ==
    /\ prog = "ozon_run" /\ pc = "fetch"
    /\ \E faults \in FaultSeqs :
       \E final \in FinalOutcomes(PageAt(upstream, served + 1)) :
         LET outs == faults \o <<final>>
             r == post_with_retries(outs)
             got200 == \E i \in 1..r.attempts : ~outs[i].exc /\ outs[i].status = 200
             batch == extract_items(r.value)
             batch_count == Len(batch)
             collected == all_items \o batch
             more == ~LastPage(batch_count, PageLimit)
         IN
         /\ requests' = Append(requests, offset)
         /\ served' = IF got200 THEN served + 1 ELSE served
         /\ last_call' = [attempts |-> r.attempts, got200 |-> got200,
                          raised |-> r.result = "raised"]
         /\ IF r.result = "raised"
            THEN /\ error' = r.error
                 /\ pc' = "finish_error"
                 /\ UNCHANGED <<batches, offset, all_items, items, df_norm>>
            ELSE /\ batches' = Append(batches, batch)
                 /\ all_items' = collected
                 /\ IF more
                    THEN /\ offset' = offset + PageLimit
                         /\ UNCHANGED <<pc, items, df_norm, error>>
                    ELSE /\ items' = collected
                         /\ df_norm' = normalize_stock(collected)
                         /\ pc' = IF dry_run THEN "finish_ok" ELSE "rebuild"
                         /\ UNCHANGED <<offset, error>>
    /\ UNCHANGED <<wb_sales, prog, fn_in, fn_out, upstream, rrdid, results, dry_run,
                   log_id, rows_raw, rows_norm, etl_log, ozon_stock_raw,
                   ozon_stock, fact_sales>>

\* rebuild_mart_from_raw(engine), called by ozon_loader.run() or by the
\* dashboard: one transaction; a primary-key violation or a lost connection
\* rolls it back and raises.
RebuildMart ==
    /\ prog \in {"ozon_run", "rebuild_mart_from_raw"} /\ pc = "rebuild"
    /\ \E db_ok \in BOOLEAN :
         /\ fact_sales' = Rebuilt(ozon_stock, fact_sales, db_ok)
         /\ IF db_ok /\ PrimaryKeyOk(ozon_stock)
            THEN /\ pc' = IF prog = "ozon_run" THEN "persist_raw" ELSE "done"
                 /\ UNCHANGED error
            ELSE /\ error' = IF db_ok THEN "UniqueViolation"
                                     ELSE "OperationalError"
                 /\ pc' = IF prog = "ozon_run" THEN "finish_error"
                                               ELSE "raised"
    /\ UNCHANGED <<wb_sales, prog, fn_in, fn_out, upstream, served, requests, batches,
                   last_call, offset, all_items, rrdid, results, dry_run,
                   log_id, items, df_norm, rows_raw, rows_norm, etl_log,
                   ozon_stock_raw, ozon_stock>>

PersistRaw ==
    /\ prog = "ozon_run" /\ pc = "persist_raw"
    /\ \E db_ok \in BOOLEAN :
         IF items = <<>> \/ db_ok
         THEN /\ ozon_stock_raw' = ozon_stock_raw \o items
              /\ rows_raw' = Len(items)
              /\ pc' = "persist_normalized"
              /\ UNCHANGED error
         ELSE /\ error' = "OperationalError"
              /\ pc' = "finish_error"
              /\ UNCHANGED <<ozon_stock_raw, rows_raw>>
    /\ UNCHANGED <<wb_sales, prog, fn_in, fn_out, upstream, served, requests, batches,
                   last_call, offset, all_items, rrdid, results, dry_run,
                   log_id, items, df_norm, rows_norm, etl_log, ozon_stock,
                   fact_sales>>

PersistNormalized ==
    /\ prog = "ozon_run" /\ pc = "persist_normalized"
    /\ \E db_ok \in BOOLEAN :
         IF df_norm = <<>> \/ db_ok
         THEN /\ ozon_stock' = ozon_stock \o df_norm
              /\ rows_norm' = Len(df_norm)
              /\ pc' = "finish_ok"
              /\ UNCHANGED error
         ELSE /\ error' = "OperationalError"
              /\ pc' = "finish_error"
              /\ UNCHANGED <<ozon_stock, rows_norm>>
    /\ UNCHANGED <<wb_sales, prog, fn_in, fn_out, upstream, served, requests, batches,
                   last_call, offset, all_items, rrdid, results, dry_run,
                   log_id, items, df_norm, rows_raw, etl_log, ozon_stock_raw,
                   fact_sales>>

FinishLogOk ==
    /\ prog = "ozon_run" /\ pc = "finish_ok"
    /\ etl_log' = finish_log(etl_log, log_id, "ok", rows_norm, "raw=" \o ToString(rows_raw) \o ", norm=" \o ToString(rows_norm))
    /\ pc' = "done"
    /\ UNCHANGED <<wb_sales, prog, fn_in, fn_out, upstream, served, requests, batches,
                   last_call, offset, all_items, rrdid, results, dry_run,
                   log_id, items, df_norm, rows_raw, rows_norm, error,
                   ozon_stock_raw, ozon_stock, fact_sales>>

\* except Exception as e: finish_log(..., "error", 0, str(e)); raise
FinishLogError ==
    /\ prog = "ozon_run" /\ pc = "finish_error"
    /\ etl_log' = finish_log(etl_log, log_id, "error", 0, error)
    /\ pc' = "raised"
    /\ UNCHANGED <<wb_sales, prog, fn_in, fn_out, upstream, served, requests, batches,
                   last_call, offset, all_items, rrdid, results, dry_run,
                   log_id, items, df_norm, rows_raw, rows_norm, error,
                   ozon_stock_raw, ozon_stock, fact_sales>>

\* ------------------------------------------------- wb_loader.fetch_report_all
\* Report records: sold on 29 and on 30 October, one without any date and
\* one whose quantity is not a number.
WBItems ==
    {[WBBase EXCEPT !.rrd_id = 1, !.rrdid = MissingId],
     [WBBase EXCEPT !.rrd_id = 2, !.rrdid = MissingId,
                    !.sale_dt = "2025-10-30"],
     [WBBase EXCEPT !.rrd_id = 0, !.rrdid = 3, !.sale_dt = None],
     [WBBase EXCEPT !.rrd_id = MissingId, !.rrdid = MissingId,
                    !.quantity = "abc"]}

WBPages == SeqsUpTo(WBItems, WBMaxLen)
WBScripts == UNION {[1..n -> WBPages] : n \in 1..MaxPages}
WBOutcomes(page) == {Exc, Http(404, JNull), Http(503, JNull), Http(200, page)}

\* Python truthiness of item.get(key)
Truthy(v) == v # MissingId /\ v # 0

\* item.get("rrd_id") or item.get("rrdid") or 0
ItemId(item) ==
    IF Truthy(item.rrd_id) THEN item.rrd_id
    ELSE IF Truthy(item.rrdid) THEN item.rrdid
    ELSE 0

RECURSIVE MaxOf(_)
MaxOf(ns) ==
    IF Len(ns) = 1 THEN ns[1]
    ELSE LET m == MaxOf(Tail(ns)) IN IF ns[1] > m THEN ns[1] ELSE m

NextCursorLast(batch) == ItemId(batch[Len(batch)])

\* max(item.get("rrd_id") or item.get("rrdid") or 0 for item in batch)
NextCursor(batch) == MaxOf([i \in DOMAIN batch |-> ItemId(batch[i])])

\* One requests.post without retry: non-200 raises RuntimeError, a
\* transport exception propagates.
fetch_report_batch(out) ==
    IF out.exc
    THEN [result |-> "raised", value |-> <<>>, error |-> "RequestException"]
    ELSE IF out.status # 200
         THEN [result |-> "raised", value |-> <<>>,
               error |-> "WB API HTTP " \o ToString(out.status)]
         ELSE [result |-> "returned", value |-> out.body, error |-> ""]

WBFetchStart ==
    /\ prog = "none"
    /\ prog' = "wb_fetch" /\ pc' = "fetch"
    /\ upstream' \in WBScripts
    /\ rrdid' = 0 /\ results' = <<>>
    /\ UNCHANGED <<wb_sales, fn_in, fn_out, served, requests, batches, last_call,
                   offset, all_items, dry_run, log_id, items, df_norm,
                   rows_raw, rows_norm, error, etl_log, ozon_stock_raw,
                   ozon_stock, fact_sales>>

NotBatchWhenShort(batch) == Len(batch) < 2

\* if not batch: break
NotBatch(batch) == batch = <<>>

\* One iteration of the while-loop of fetch_report_all, called on its own
\* ("wb_fetch") or from run() ("wb_run"), which goes on to normalize_to_df.
WBFetchPage ==
    /\ prog \in {"wb_fetch", "wb_run"} /\ pc = "fetch"
    /\ \E out \in WBOutcomes(PageAt(upstream, served + 1)) :
         LET r == fetch_report_batch(out) IN
         /\ requests' = Append(requests, rrdid)
         /\ last_call' = [attempts |-> 1, got200 |-> r.result = "returned",
                          raised |-> r.result = "raised"]
         /\ IF r.result = "raised"
            THEN /\ error' = r.error
                 /\ pc' = "raised"
                 /\ UNCHANGED <<served, batches, rrdid, results>>
            ELSE /\ served' = served + 1
                 /\ batches' = Append(batches, r.value)
                 /\ IF NotBatch(r.value)
                    THEN /\ pc' = IF prog = "wb_fetch" THEN "done"
                                                       ELSE "normalize"
                         /\ UNCHANGED <<rrdid, results, error>>
                    ELSE /\ results' = results \o r.value
                         /\ rrdid' = NextCursor(r.value)
                         /\ UNCHANGED <<pc, error>>
    /\ UNCHANGED <<wb_sales, prog, fn_in, fn_out, upstream, offset, all_items, dry_run,
                   log_id, items, df_norm, rows_raw, rows_norm, etl_log,
                   ozon_stock_raw, ozon_stock, fact_sales>>

\* ------------------------------------------------------- wb_loader.run()
\* argparse, load_cfg, make_engine; fetch_report_all starts with rrdid = 0.
WBRunStart ==
    /\ prog = "none"
    /\ prog' = "wb_run" /\ pc' = "fetch"
    /\ dry_run' \in BOOLEAN
    /\ upstream' \in WBScripts
    /\ rrdid' = 0 /\ results' = <<>>
    /\ UNCHANGED <<fn_in, fn_out, served, requests, batches, last_call,
                   offset, all_items, log_id, items, df_norm, rows_raw,
                   rows_norm, error, etl_log, ozon_stock_raw, ozon_stock,
                   fact_sales, wb_sales>>

\* items = fetch_report_all(...); df = normalize_to_df(items);
\* if args.dry_run: return
WBNormalize ==
    /\ prog = "wb_run" /\ pc = "normalize"
    /\ items' = results
    /\ LET r == normalize_to_df(results) IN
         IF r.raised
         THEN /\ error' = "ValueError"
              /\ pc' = "raised"
              /\ UNCHANGED df_norm
         ELSE /\ df_norm' = r.rows
              /\ pc' = IF dry_run THEN "done" ELSE "upsert"
              /\ UNCHANGED error
    /\ UNCHANGED <<prog, fn_in, fn_out, upstream, served, requests, batches,
                   last_call, offset, all_items, rrdid, results, dry_run,
                   log_id, rows_raw, rows_norm, etl_log, ozon_stock_raw,
                   ozon_stock, fact_sales, wb_sales>>

RECURSIVE MinOf(_)
MinOf(ns) ==
    IF Len(ns) = 1 THEN ns[1]
    ELSE LET m == MinOf(Tail(ns)) IN IF ns[1] < m THEN ns[1] ELSE m

Dates(df) == [i \in DOMAIN df |-> df[i].date]

DeleteNothing(table, d_min, d_max) == table

\* DELETE FROM raw.wb_sales WHERE date BETWEEN :dmin AND :dmax
DeleteWindow(table, d_min, d_max) ==
    LET Outside(r) == ~(d_min <= r.date /\ r.date <= d_max)
    IN SelectSeq(table, Outside)

\* upsert_raw_wb, first part: return 0 for an empty frame, else the DELETE
\* in its own transaction, committed when the with-block is left.
UpsertDelete ==
    /\ prog \in {"wb_run", "upsert_raw_wb"} /\ pc = "upsert"
    /\ IF df_norm = <<>>
       THEN /\ rows_norm' = 0
            /\ pc' = IF prog = "wb_run" THEN "log_etl" ELSE "done"
            /\ UNCHANGED <<wb_sales, error>>
       ELSE \E db_ok \in BOOLEAN :
              IF db_ok
              THEN /\ wb_sales' = DeleteWindow(wb_sales, MinOf(Dates(df_norm)),
                                               MaxOf(Dates(df_norm)))
                   /\ pc' = "insert"
                   /\ UNCHANGED <<rows_norm, error>>
              ELSE /\ error' = "OperationalError"
                   /\ pc' = "raised"
                   /\ UNCHANGED <<wb_sales, rows_norm>>
    /\ UNCHANGED <<prog, fn_in, fn_out, upstream, served, requests, batches,
                   last_call, offset, all_items, rrdid, results, dry_run,
                   log_id, items, df_norm, rows_raw, etl_log, ozon_stock_raw,
                   ozon_stock, fact_sales>>

\* upsert_raw_wb, second part: df.to_sql(..., if_exists="append") on a
\* connection of its own; return len(df).
UpsertInsert ==
    /\ prog \in {"wb_run", "upsert_raw_wb"} /\ pc = "insert"
    /\ \E db_ok \in BOOLEAN :
         IF db_ok
         THEN /\ wb_sales' = wb_sales \o df_norm
              /\ rows_norm' = Len(df_norm)
              /\ pc' = IF prog = "wb_run" THEN "log_etl" ELSE "done"
              /\ UNCHANGED error
         ELSE /\ error' = "OperationalError"
              /\ pc' = "raised"
              /\ UNCHANGED <<wb_sales, rows_norm>>
    /\ UNCHANGED <<prog, fn_in, fn_out, upstream, served, requests, batches,
                   last_call, offset, all_items, rrdid, results, dry_run,
                   log_id, items, df_norm, rows_raw, etl_log, ozon_stock_raw,
                   ozon_stock, fact_sales>>

\* log_etl: the INSERT names columns (run_at, rows, meta) that raw.etl_log
\* as created by bootstrap_raw does not have; the exception is swallowed.
LogEtl ==
    /\ prog = "wb_run" /\ pc = "log_etl"
    /\ pc' = "done"
    /\ UNCHANGED <<prog, fn_in, fn_out, upstream, served, requests, batches,
                   last_call, offset, all_items, rrdid, results, dry_run,
                   log_id, items, df_norm, rows_raw, rows_norm, error,
                   etl_log, ozon_stock_raw, ozon_stock, fact_sales, wb_sales>>

Next ==
    \/ OzonRunStart
    \/ StartLog
    \/ OzonFetchPage
    \/ RebuildMart
    \/ PersistRaw
    \/ PersistNormalized
    \/ FinishLogOk
    \/ FinishLogError
    \/ WBFetchStart
    \/ WBFetchPage
    \/ WBRunStart
    \/ WBNormalize
    \/ UpsertDelete
    \/ UpsertInsert
    \/ LogEtl

Spec == Init /\ [][Next]_vars

\* ------------------------------------------------------ paginator claims
Sizes(pages) == [i \in DOMAIN pages |-> Len(pages[i])]

\* The run-log entry created by this run.
Entry == etl_log[log_id]

\* The latest call used up its 5 attempts without receiving HTTP 200.
BudgetExhausted == last_call.attempts = max_retries /\ ~last_call.got200

\* C2: an Ozon run in which a page request stays unrecovered after the retry
\* budget is exhausted ends with a raised error and its run-log entry in
\* status 'error' with the message; it never finishes with status 'ok'.
C2_ExhaustedRunIsError ==
    (prog = "ozon_run" /\ BudgetExhausted) =>
        /\ Entry.status # "ok"
        /\ pc # "done"
        /\ pc = "raised" => (Entry.status = "error" /\ Entry.message = error)

\* C5: fetch_report_all re-attempts a page request that failed with a
\* transport exception or HTTP 5xx, up to 5 attempts; it fails on such a
\* failure only after that budget is exhausted.
C5_WBRetriesRetryable ==
    (prog = "wb_fetch" /\ pc = "raised"
        /\ error \in {"RequestException", "WB API HTTP 503"})
       => last_call.attempts = max_retries

\* The Ozon fetch loop has returned to run().
OzonFetched ==
    /\ prog = "ozon_run" /\ requests # <<>>
    /\ Len(batches) = Len(requests)
    /\ Len(batches[Len(batches)]) < PageLimit

\* C6: fetch_all_ozon_stock requests offsets 0, L, 2L, ... in order, moves on
\* only after a page of L or more records, stops right after the first page
\* of 0 or fewer than L records, and returns the pages concatenated in fetch
\* order.
C6_OffsetPagination ==
    prog = "ozon_run" =>
        /\ \A i \in 1..Len(requests) : requests[i] = (i - 1) * PageLimit
        /\ \A i \in 1..Len(batches) :
              IF Len(batches[i]) < PageLimit
              THEN i = Len(requests) /\ pc # "fetch"
              ELSE pc = "fetch" \/ i < Len(requests)
        /\ pc = "fetch" => offset = Len(requests) * PageLimit
        /\ all_items = Concat(batches)
        /\ OzonFetched => items = Concat(batches)

C6_Witness ==
    /\ OzonFetched
    /\ requests = <<0, PageLimit, 2 * PageLimit>>
    /\ Len(batches[1]) = PageLimit + 1 /\ Len(batches[2]) = PageLimit
    /\ batches[3] = <<>>
    /\ items = batches[1] \o batches[2]

\* The id a WB record carries: rrd_id, else rrdid; a missing, null or 0
\* value counts as no id, and a record without any id counts as 0.
RecordId(item) ==
    IF item.rrd_id \notin {MissingId, 0} THEN item.rrd_id
    ELSE IF item.rrdid \notin {MissingId, 0} THEN item.rrdid
    ELSE 0

MaxId(page) ==
    CHOOSE m \in {RecordId(page[i]) : i \in DOMAIN page} :
        \A i \in DOMAIN page : RecordId(page[i]) <= m

\* C7: fetch_report_all sends cursor 0 first; after every non-empty page the
\* next request's cursor is the maximum id over the records of that page; it
\* stops exactly when a fetched page is empty and returns the non-empty
\* pages concatenated in fetch order.
C7_CursorPagination ==
    prog = "wb_fetch" =>
        /\ requests # <<>> => requests[1] = 0
        /\ \A i \in 1..Len(batches) :
              IF batches[i] = <<>>
              THEN i = Len(requests) /\ pc = "done"
              ELSE /\ pc = "fetch" \/ i < Len(requests)
                   /\ i < Len(requests) => requests[i + 1] = MaxId(batches[i])
                   /\ i = Len(requests) => rrdid = MaxId(batches[i])
        /\ pc = "done" => batches # <<>> /\ batches[Len(batches)] = <<>>
        /\ results = Concat(batches)

C7_Witness ==
    /\ prog = "wb_fetch" /\ pc = "done"
    /\ Len(requests) = 3
    /\ Len(batches[1]) = 2 /\ batches[1][1].rrd_id = 2 /\ batches[1][2].rrd_id = 1
    /\ requests[2] = 2 /\ requests[3] = 3
    /\ results = batches[1] \o batches[2]

\* Every request so far was answered with the next page of the upstream
\* sequence, and the paginator has returned.
ServedInSequence ==
    /\ Len(batches) = Len(requests)
    /\ \A i \in 1..Len(batches) : batches[i] = PageAt(upstream, i)

OzonReturned == OzonFetched /\ ServedInSequence
WBReturned == prog = "wb_fetch" /\ pc = "done" /\ ServedInSequence

\* Page sizes strictly decreasing, then empty pages only.
DecreasingThenEmpty(pages) ==
    \A i \in 1..(Len(pages) - 1) : Len(pages[i]) > Len(pages[i + 1])

\* A paginator fed the upstream sequence never asks for more than one page
\* past its end.
Terminates ==
    (prog \in {"ozon_run", "wb_fetch"} /\ DecreasingThenEmpty(upstream))
        => Len(requests) <= Len(upstream) + 1

\* C8 as stated: on an upstream sequence with strictly decreasing, then
\* empty, page sizes each paginator terminates and returns as many records
\* as all non-empty pages of the sequence hold together.
C8_SumOfAllPages ==
    /\ Terminates
    /\ (OzonReturned /\ DecreasingThenEmpty(upstream))
          => Len(items) = SumSeq(Sizes(upstream))
    /\ (WBReturned /\ DecreasingThenEmpty(upstream))
          => Len(results) = SumSeq(Sizes(upstream))

\* Pages of the sequence up to and including the first one with fewer than
\* limit records.
RECURSIVE UpToFirstShort(_, _)
UpToFirstShort(pages, limit) ==
    IF pages = <<>> THEN <<>>
    ELSE IF Len(Head(pages)) < limit THEN <<Head(pages)>>
    ELSE <<Head(pages)>> \o UpToFirstShort(Tail(pages), limit)

\* C8 amended: on such a sequence each paginator terminates; the cursor
\* paginator returns as many records as all non-empty pages hold, the offset
\* paginator as many as the pages up to and including the first page with
\* fewer than L records hold.
C8_SumOfFetchedPages ==
    /\ Terminates
    /\ (OzonReturned /\ DecreasingThenEmpty(upstream))
          => Len(items) = SumSeq(Sizes(UpToFirstShort(upstream, PageLimit)))
    /\ (WBReturned /\ DecreasingThenEmpty(upstream))
          => Len(results) = SumSeq(Sizes(upstream))

C8_Witness ==
    /\ OzonReturned
    /\ Sizes(upstream) = <<PageLimit + 1, PageLimit - 1>>
    /\ Len(requests) = 2
    /\ Len(items) = 2 * PageLimit

\* -------------------------------------------------- normalize_to_df inputs
WBDateVariants ==
    {<<None, None, None>>, <<"", "null", "2025-10-30">>,
     <<"garbage", "2025-10-31 7:05:09", None>>,
     <<"2025-10-29T11:22:33", None, None>>,
     <<None, "2025-10-31 7:05:09", "2025-10-30">>,
     <<None, None, "29.10.2025">>}

WBMeasureVariants ==
    {<<None, None, None, None>>, <<"5", "2", "10", "7">>,
     <<"abc", "2", "10", None>>, <<"", "2", "null", "7">>,
     <<"5", None, "x", None>>}

WBRecords ==
    {[WBBase EXCEPT !.sale_dt = d[1], !.saleDt = d[2], !.date = d[3],
                    !.quantity = m[1], !.sale_qty = m[2],
                    !.retail_price = m[3], !.price = m[4]] :
        d \in WBDateVariants, m \in WBMeasureVariants}
    \cup {[WBBase EXCEPT !.supplierArticle = None],
          [WBBase EXCEPT !.supplierArticle = "", !.sa_article = "null",
                         !.sa_name = None, !.nm_id = "123", !.barcode = "999"],
          [WBBase EXCEPT !.supplierArticle = None, !.sa_name = "NAME"]}
    \cup {[WBBase EXCEPT !.regionName = None],
          [WBBase EXCEPT !.regionName = "", !.region_name = "Tula"],
          [WBBase EXCEPT !.regionName = "null"]}

InitNormalizeWB ==
    /\ prog = "normalize_to_df" /\ pc = "call"
    /\ fn_in \in SeqsUpTo(WBRecords, MaxBatch)
    /\ fn_out = [raised |-> FALSE, rows |-> <<>>]
    /\ Idle

CallNormalizeToDf ==
    /\ prog = "normalize_to_df" /\ pc = "call"
    /\ fn_out' = normalize_to_df(fn_in)
    /\ pc' = "done"
    /\ UNCHANGED <<wb_sales, prog, fn_in, upstream, served, requests, batches,
                   last_call, offset, all_items, rrdid, results, dry_run,
                   log_id, items, df_norm, rows_raw, rows_norm, error,
                   etl_log, ozon_stock_raw, ozon_stock, fact_sales>>

SpecNormalizeWB == InitNormalizeWB /\ [][CallNormalizeToDf]_vars

\* A candidate value counts when it is not null, not empty and not "null".
Counts(v) == v # None /\ v # "" /\ v # "null"

\* The first candidate of the chain that counts, else the default.
FirstOf(chain, default) ==
    IF \E i \in 1..Len(chain) : Counts(chain[i])
    THEN chain[CHOOSE i \in 1..Len(chain) :
                   Counts(chain[i]) /\ \A j \in 1..(i - 1) : ~Counts(chain[j])]
    ELSE default

\* The strings that are dates, and the numbers the numeric strings denote.
DateStrings ==
    {"2025-10-29", "2025-10-30", "2025-10-29T11:22:33", "2025-10-29 11:22:33",
     "2025-10-31 7:05:09"}
NumberOf(v) ==
    CASE v = "0" -> 0 [] v = "2" -> 2 [] v = "5" -> 5 [] v = "7" -> 7
      [] v = "10" -> 10 [] OTHER -> 0

NormalizedWB == prog = "normalize_to_df" /\ pc = "done"

\* C11: no normalizer raises because of a record's field values; a measure
\* whose source value does not parse as a number becomes 0 in that row and
\* the rest of the batch is normalized as usual.
C11_MeasuresNeverAbort ==
    NormalizedWB =>
        /\ ~fn_out.raised
        /\ \A i \in 1..Len(fn_out.rows) :
              LET it == fn_out.rows[i].payload IN
              /\ fn_out.rows[i].quantity =
                    NumberOf(FirstOf(<<it.quantity, it.sale_qty>>, "0"))
              /\ fn_out.rows[i].price =
                    NumberOf(FirstOf(<<it.retail_price, it.price>>, "0"))

\* Does the record's first counting date candidate parse as a date?
HasDate(it) == FirstOf(<<it.sale_dt, it.saleDt, it.date>>, None) \in DateStrings

\* C12: the output of normalize_to_df holds, in input order, exactly one row
\* for each input record whose first non-null, non-empty, non-"null" date
\* candidate (sale_dt, saleDt, date) parses, and none for any other record;
\* no output row has a null date.
C12_RowsWithDateKept ==
    (NormalizedWB /\ ~fn_out.raised) =>
        /\ [i \in 1..Len(fn_out.rows) |-> fn_out.rows[i].payload]
              = SelectSeq(fn_in, HasDate)
        /\ \A i \in 1..Len(fn_out.rows) : fn_out.rows[i].date # NaT

C12_Witness ==
    /\ NormalizedWB /\ ~fn_out.raised
    /\ Len(fn_in) = 2 /\ Len(fn_out.rows) = 1
    /\ fn_in[1].sale_dt = "garbage" /\ fn_in[1].saleDt = "2025-10-31 7:05:09"
    /\ fn_out.rows[1].payload = fn_in[2]
    /\ fn_out.rows[1].date = 20251031

\* C13: in every output row of normalize_to_df each field is the first
\* counting candidate of its chain, else its default: sku "UNKNOWN", region
\* the empty string (never null), quantity and price 0.
C13_FallbackChains ==
    (NormalizedWB /\ ~fn_out.raised) =>
        \A i \in 1..Len(fn_out.rows) :
            LET it == fn_out.rows[i].payload IN
            /\ fn_out.rows[i].sku =
                  FirstOf(<<it.supplierArticle, it.sa_article, it.sa_name,
                            it.nm_id, it.barcode>>, "UNKNOWN")
            /\ fn_out.rows[i].region =
                  FirstOf(<<it.regionName, it.region_name>>, "")
            /\ fn_out.rows[i].region # None
            /\ fn_out.rows[i].quantity =
                  NumberOf(FirstOf(<<it.quantity, it.sale_qty>>, "0"))
            /\ fn_out.rows[i].price =
                  NumberOf(FirstOf(<<it.retail_price, it.price>>, "0"))

\* ------------------------------------------------ wb_loader.upsert_raw_wb
MaxStored == 2      \* rows raw.wb_sales holds before the first call

WBNew(d) == normalize_to_df(<<[WBBase EXCEPT !.sale_dt = d]>>).rows[1]

UpsertDates == {"2025-10-29", "2025-10-30", "2025-10-31 7:05:09"}
StoredRows == {WBStored(d) : d \in UpsertDates} \cup {WBNew("2025-10-29")}
BatchRows == {WBNew(d) : d \in UpsertDates}

\* upsert_raw_wb(engine, df) on a table with fn_in as contents; fn_out
\* collects the contents left by each completed call.
InitUpsert ==
    /\ prog = "upsert_raw_wb" /\ pc = "upsert"
    /\ fn_in \in SeqsUpTo(StoredRows, MaxStored)
    /\ wb_sales = fn_in
    /\ df_norm \in SeqsUpTo(BatchRows, MaxBatch)
    /\ fn_out = <<>>
    /\ upstream = <<>> /\ served = 0 /\ requests = <<>> /\ batches = <<>>
    /\ last_call = NoCall
    /\ offset = 0 /\ all_items = <<>> /\ rrdid = 0 /\ results = <<>>
    /\ dry_run = FALSE /\ log_id = 0 /\ items = <<>>
    /\ rows_raw = 0 /\ rows_norm = 0 /\ error = ""
    /\ etl_log = <<>> /\ ozon_stock_raw = <<>> /\ ozon_stock = <<>>
    /\ fact_sales = {}

\* The caller runs upsert_raw_wb a second time with the same frame.
UpsertAgain ==
    /\ prog = "upsert_raw_wb" /\ pc = "done" /\ fn_out = <<>>
    /\ fn_out' = <<wb_sales>>
    /\ pc' = "upsert"
    /\ UNCHANGED <<prog, fn_in, upstream, served, requests, batches,
                   last_call, offset, all_items, rrdid, results, dry_run,
                   log_id, items, df_norm, rows_raw, rows_norm, error,
                   etl_log, ozon_stock_raw, ozon_stock, fact_sales, wb_sales>>

NextUpsert == UpsertDelete \/ UpsertInsert \/ UpsertAgain

SpecUpsert == InitUpsert /\ [][NextUpsert]_vars

\* The table as the current call of upsert_raw_wb found it.
TableBefore == IF fn_out = <<>> THEN fn_in ELSE fn_out[1]

\* A row is dated inside [min(batch.date), max(batch.date)].
InWindow(r, batch) ==
    \E i, j \in DOMAIN batch :
        batch[i].date <= r.date /\ r.date <= batch[j].date

\* The prior rows dated outside the batch's window, plus the batch.
Replaced(prior, batch) ==
    LET Kept(r) == ~InWindow(r, batch)
    IN SelectSeq(prior, Kept) \o batch

\* C14: raw.wb_sales is always either as the call of upsert_raw_wb found it
\* or as delete-and-insert leaves it: never with the window deleted and the
\* batch missing, also after a failed insert.
C14_UpsertAtomic ==
    prog = "upsert_raw_wb" =>
        wb_sales \in {TableBefore, Replaced(TableBefore, df_norm)}

\* C15: a completed upsert_raw_wb with a non-empty batch leaves the prior
\* rows dated outside the batch's window plus the batch, and a second
\* completed call with the same batch leaves the same rows and row count.
C15_WindowedReplace ==
    (prog = "upsert_raw_wb" /\ pc = "done" /\ df_norm # <<>>) =>
        /\ wb_sales = Replaced(fn_in, df_norm)
        /\ fn_out # <<>> => /\ wb_sales = fn_out[1]
                            /\ Len(wb_sales) = Len(fn_out[1])

\* The second call completed on a table that held a row inside and a row
\* outside the window of a two-date batch.
C15_Witness ==
    /\ prog = "upsert_raw_wb" /\ pc = "done" /\ fn_out # <<>>
    /\ Len(df_norm) = 2 /\ df_norm[1].date # df_norm[2].date
    /\ \E i, j \in DOMAIN fn_in :
          InWindow(fn_in[i], df_norm) /\ ~InWindow(fn_in[j], df_norm)

\* ------------------------------------------- app.rebuild_mart_from_raw
MaxRaw == 2         \* rows raw.ozon_stock holds when the dashboard rebuilds

\* Rows of raw.ozon_stock: RowA and RowB share (date, sku, region); a NULL
\* sku and the sku 'UNKNOWN', a NULL and an empty region, a NULL date.
RawRows ==
    {RowA, RowB, [RowA EXCEPT !.sku = None], [RowA EXCEPT !.sku = "UNKNOWN"],
     [RowB EXCEPT !.region = None], [RowA EXCEPT !.region = ""],
     [RowA EXCEPT !.date = NaT]}

\* mart.fact_sales as earlier rebuilds left it.
MartPriors ==
    {{}, rebuild_mart_from_raw(<<RowA>>),
     rebuild_mart_from_raw(<<[RowB EXCEPT !.sku = "B2"], RowB>>)}

\* The dashboard script: every rerun calls rebuild_mart_from_raw inside
\* try/except; fn_in is the fact table before the first call and fn_out
\* the outcome of each call.
InitRebuild ==
    /\ prog = "rebuild_mart_from_raw" /\ pc = "rebuild"
    /\ ozon_stock \in SeqsUpTo(RawRows, MaxRaw)
    /\ fact_sales \in MartPriors
    /\ fn_in = fact_sales
    /\ fn_out = <<>>
    /\ upstream = <<>> /\ served = 0 /\ requests = <<>> /\ batches = <<>>
    /\ last_call = NoCall
    /\ offset = 0 /\ all_items = <<>> /\ rrdid = 0 /\ results = <<>>
    /\ dry_run = FALSE /\ log_id = 0 /\ items = <<>> /\ df_norm = <<>>
    /\ rows_raw = 0 /\ rows_norm = 0 /\ error = ""
    /\ etl_log = <<>> /\ ozon_stock_raw = <<>> /\ wb_sales = <<>>

\* The call returned or its exception was caught; the script is rerun once.
RebuildReturn ==
    /\ prog = "rebuild_mart_from_raw" /\ pc \in {"done", "raised"}
    /\ Len(fn_out) < 2
    /\ fn_out' = Append(fn_out, [error |-> error, table |-> fact_sales])
    /\ error' = ""
    /\ pc' = IF fn_out = <<>> THEN "rebuild" ELSE "end"
    /\ UNCHANGED <<prog, fn_in, upstream, served, requests, batches,
                   last_call, offset, all_items, rrdid, results, dry_run,
                   log_id, items, df_norm, rows_raw, rows_norm, etl_log,
                   ozon_stock_raw, ozon_stock, fact_sales, wb_sales>>

NextRebuild == RebuildMart \/ RebuildReturn

SpecRebuild == InitRebuild /\ [][NextRebuild]_vars

\* The fact table as the current call of rebuild_mart_from_raw found it.
MartBefore == IF fn_out = <<>> THEN fn_in ELSE fn_out[Len(fn_out)].table

\* C16: mart.fact_sales always holds either exactly its contents before the
\* rebuild or exactly the fully rebuilt contents, and after a failed rebuild
\* (constraint violation, lost connection) its contents before the rebuild.
C16_AllOrNothing ==
    prog = "rebuild_mart_from_raw" =>
        /\ fact_sales \in {MartBefore, {FactRow(ozon_stock[i]) : i \in DOMAIN ozon_stock}}
        /\ pc = "raised" => fact_sales = MartBefore

\* A rebuild failed on the primary key and the non-empty fact table is as
\* it was.
C16_Witness ==
    /\ prog = "rebuild_mart_from_raw" /\ pc = "raised"
    /\ error = "UniqueViolation"
    /\ fact_sales # {} /\ fact_sales = MartBefore

\* The key of the fact row a raw row maps to.
RawKey(r) ==
    <<IF r.date = NaT THEN Today ELSE r.date, "ozon",
      IF r.sku = None THEN "UNKNOWN" ELSE r.sku,
      IF r.region = None THEN "" ELSE r.region>>

\* quantity * price summed over the raw rows of a key
RevenueOf(raw, k) ==
    SumSeq([i \in DOMAIN raw |->
              IF RawKey(raw[i]) = k THEN raw[i].quantity * raw[i].price ELSE 0])

\* One fact row per distinct key of the raw rows.
Aggregated(raw) ==
    {[date |-> k[1], marketplace |-> k[2], sku |-> k[3], region |-> k[4],
      revenue |-> RevenueOf(raw, k), cost |-> 0,
      profit |-> RevenueOf(raw, k)] : k \in {RawKey(raw[i]) : i \in DOMAIN raw}}

\* C17: for any contents of raw.ozon_stock a rebuild on a reachable database
\* succeeds and leaves one fact row per distinct (date, marketplace, sku,
\* region) of the raw rows, with the revenue summed over the rows of the key
\* and cost 0.
C17_OneRowPerKey ==
    (prog = "rebuild_mart_from_raw" /\ fn_out # <<>>
        /\ fn_out[1].error # "OperationalError")
       => /\ fn_out[1].error = ""
          /\ fn_out[1].table = Aggregated(ozon_stock)

\* C20: when rebuild_mart_from_raw ran twice on a reachable database with
\* the same raw.ozon_stock, mart.fact_sales is the same after the second run
\* as after the first, whatever it held before.
C20_RebuildIdempotent ==
    (prog = "rebuild_mart_from_raw" /\ Len(fn_out) = 2
        /\ fn_out[1].error # "OperationalError"
        /\ fn_out[2].error # "OperationalError")
       => fn_out[2].table = fn_out[1].table

\* Two rebuilds succeeded on a fact table that held other rows before.
C20_Witness ==
    /\ prog = "rebuild_mart_from_raw" /\ Len(fn_out) = 2
    /\ fn_out[1].error = "" /\ fn_out[2].error = ""
    /\ fn_in # {} /\ fn_in # fn_out[1].table /\ fn_out[2].table # {}

\* The stores hold what one of the initial stores held.
StoresUntouched ==
    \E st \in InitStores :
        /\ ozon_stock = st.raw /\ fact_sales = st.mart /\ wb_sales = st.wb
        /\ etl_log = st.log /\ ozon_stock_raw = <<>>

\* What C18 asks of the run's entry in a state of the run.
LogEntryFollowsRun ==
    (prog = "ozon_run" /\ log_id # 0) =>
        /\ pc = "done" => Entry.status = "ok"
        /\ pc = "raised" => Entry.status = "error" /\ Entry.message = error
        /\ pc \notin {"done", "raised"} => Entry.status = "running"

\* What C18 asks of a step of the run.
LogStep ==
    /\ Len(etl_log') >= Len(etl_log)
    /\ \A i \in DOMAIN etl_log :
          /\ etl_log[i].status # "running" => etl_log'[i] = etl_log[i]
          /\ etl_log'[i] # etl_log[i] =>
                /\ i = log_id
                /\ etl_log'[i].status \in {"ok", "error"}
                /\ pc' \in {"done", "raised"}
    /\ pc \in {"done", "raised"} => etl_log' = etl_log

\* C18: the entry an Ozon run created stays 'running' while the run works,
\* is updated in one step, the run's last, to 'ok' when the run completes
\* and to 'error' with the exception's message when a step raised; a
\* terminal entry never changes and no entry is deleted.
C18_RunLogOnce ==
    [][(prog' = "ozon_run") => (LogStep /\ LogEntryFollowsRun')]_vars

\* A run failed in the rebuild: its entry is 'error' with the message and the
\* entries of two earlier runs are as they were.
C18_Witness ==
    /\ prog = "ozon_run" /\ pc = "raised" /\ error = "UniqueViolation"
    /\ Len(etl_log) = 3 /\ Entry.status = "error"
    /\ Entry.message = "UniqueViolation"
    /\ etl_log[1].status = "ok" /\ etl_log[2].status = "error"

\* C19: a --dry-run run of either loader leaves the raw payload table, the
\* normalized raw tables, mart.fact_sales and the run log as they were.
C19_DryRunWritesNothing ==
    (prog \in {"ozon_run", "wb_run"} /\ dry_run) => StoresUntouched

\* C21: when a non-dry Ozon run ends with status 'ok', mart.fact_sales was
\* rebuilt after the run's normalized rows were written: every row the run
\* ingested has its fact row, and the table is the rebuild of raw.ozon_stock
\* as the run left it.
C21_RebuildAfterWrite ==
    (prog = "ozon_run" /\ ~dry_run /\ pc = "done") =>
        /\ \A i \in DOMAIN df_norm :
              \E f \in fact_sales : FactKey(f) = RawKey(df_norm[i])
        /\ PrimaryKeyOk(ozon_stock) =>
              fact_sales = {FactRow(ozon_stock[i]) : i \in DOMAIN ozon_stock}

\* The run log holds one entry more than the initial store st held.
OneEntryMore(st) ==
    /\ ozon_stock = st.raw
    /\ Len(etl_log) = Len(st.log) + 1
    /\ \A i \in DOMAIN st.log : etl_log[i] = st.log[i]

\* C22: a non-dry WB run that ended, normally or by an exception of the
\* fetch, the normalization or the write, has left exactly one run-log
\* entry of its own, in status 'ok' with the written row count or in status
\* 'error' with the exception's message.
C22_WBRunLogged ==
    (prog = "wb_run" /\ ~dry_run /\ pc \in {"done", "raised"}) =>
        \E st \in InitStores :
            /\ OneEntryMore(st)
            /\ LET e == etl_log[Len(etl_log)] IN
                 IF pc = "done"
                 THEN e.status = "ok" /\ e.rows_loaded = rows_norm
                 ELSE e.status = "error" /\ e.message = error

\* C23: the cursor values sent by one fetch_report_all call are strictly
\* increasing, whatever pages the upstream serves: no request repeats an
\* earlier cursor and no non-empty page sends the cursor back to 0.
C23_CursorStrictlyIncreasing ==
    prog \in {"wb_fetch", "wb_run"} =>
        \A i, j \in DOMAIN requests : i < j => requests[i] < requests[j]

====
